---- MODULE Spec2Model ----
(***************************************************************************)
(* A model of one connection of the CXO node (src/node/conn.go): the frame *)
(* codec, the request correlator (seq, reqs, sendRequest), the receive     *)
(* loop with its handlers, and the remote peer that feeds the inbound      *)
(* queue and drains the outbound one.                                      *)
(***************************************************************************)
EXTENDS Integers, Sequences, FiniteSets, TLC

(***************************************************************************)
(* Bounds of the model.                                                    *)
(***************************************************************************)
\* nextSeq is called at most this many times in a behaviour
MaxAllocs == 2
\* the peer puts at most this many frames into the inbound queue
MaxInbound == 2
\* capacity of the transport's outbound queue (fc.GetChanOut())
SendqCap == 1
\* capacity of the transport's inbound queue (c.GetChanIn())
ReceiveqCap == 1

(***************************************************************************)
(* Values.                                                                 *)
(***************************************************************************)
\* cipher.PubKey values: the zero value (blank) and two feeds
BlankFeed == 0
Feeds == {1, 2}
AllKeys == {BlankFeed} \cup Feeds

\* head nonces and Root sequence numbers the peer announces
Nonces == {1}
RootSeqs == {0, 1, 2, 3}

\* the keys the owning node calls Subscribe and Unsubscribe with
SubscribeKeys == {BlankFeed, 1}
UnsubscribeKeys == {1}

\* tasks of the owning node that call into the connection
Tasks == {"t1"}

\* the nil msg.Msg
NilMsg == [t |-> "nil"]

\* errors of the package
ErrTimeout == "ErrTimeout"
ErrClosed == "ErrClosed"
ErrNotPublic == "not a public server"

(***************************************************************************)
(* Messages (package msg, not part of the sources at hand): a closed set   *)
(* of tagged variants; Encode writes the tag byte and then the fields,     *)
(* Decode reads them back and fails on an unknown tag or a wrong length.   *)
(***************************************************************************)
ErrTexts == <<"blank public key", "not share the feed", ErrNotPublic, "rejected",
              "not found">>

ErrCode(s) == CHOOSE i \in 1..Len(ErrTexts) : ErrTexts[i] = s

MsgTypes == <<"Sub", "Unsub", "RqList", "List", "Ok", "Err", "Root",
              "RootDone", "RootErr", "RqObject", "Object", "RqPreview">>

MsgTag(t) == CHOOSE i \in 1..Len(MsgTypes) : MsgTypes[i] = t

BoolByte(b) == IF b THEN 1 ELSE 0

Encode(m) ==
    LET tag == MsgTag(m.t) IN
    CASE m.t \in {"Sub", "Unsub", "RqPreview"} -> <<tag, m.Feed>>
      [] m.t \in {"RqList", "Ok"} -> <<tag>>
      [] m.t = "List" -> <<tag, Len(m.Feeds)>> \o m.Feeds
      [] m.t = "Err" -> <<tag, ErrCode(m.Err)>>
      [] m.t = "Root" -> <<tag, m.Feed, m.Nonce, m.Seq, BoolByte(m.Sig),
                           m.Value.Pub, m.Value.Nonce, m.Value.Seq>>
      [] m.t \in {"RootDone", "RootErr"} -> <<tag, m.Feed, m.Nonce, m.Seq>>
      [] m.t = "RqObject" -> <<tag, m.Key, BoolByte(m.Prefetch)>>
      [] m.t = "Object" -> <<tag, m.Val>>

DecodeFail == [err |-> TRUE, m |-> NilMsg]

DecodeOk(m) == [err |-> FALSE, m |-> m]

Decode(b) ==
    IF Len(b) = 0 \/ b[1] \notin 1..Len(MsgTypes) THEN DecodeFail
    ELSE
    LET t == MsgTypes[b[1]]
        n == Len(b) IN
    CASE t \in {"Sub", "Unsub", "RqPreview"} ->
            IF n = 2 THEN DecodeOk([t |-> t, Feed |-> b[2]]) ELSE DecodeFail
      [] t \in {"RqList", "Ok"} ->
            IF n = 1 THEN DecodeOk([t |-> t]) ELSE DecodeFail
      [] t = "List" ->
            IF n >= 2 /\ n = 2 + b[2]
            THEN DecodeOk([t |-> t, Feeds |-> SubSeq(b, 3, n)])
            ELSE DecodeFail
      [] t = "Err" ->
            IF n = 2 /\ b[2] \in 1..Len(ErrTexts)
            THEN DecodeOk([t |-> t, Err |-> ErrTexts[b[2]]])
            ELSE DecodeFail
      [] t = "Root" ->
            IF n = 8 /\ b[5] \in {0, 1}
            THEN DecodeOk([t |-> t, Feed |-> b[2], Nonce |-> b[3], Seq |-> b[4],
                           Sig |-> (b[5] = 1),
                           Value |-> [Pub |-> b[6], Nonce |-> b[7], Seq |-> b[8]]])
            ELSE DecodeFail
      [] t \in {"RootDone", "RootErr"} ->
            IF n = 4
            THEN DecodeOk([t |-> t, Feed |-> b[2], Nonce |-> b[3], Seq |-> b[4]])
            ELSE DecodeFail
      [] t = "RqObject" ->
            IF n = 3 /\ b[3] \in {0, 1}
            THEN DecodeOk([t |-> t, Key |-> b[2], Prefetch |-> (b[3] = 1)])
            ELSE DecodeFail
      [] t = "Object" ->
            IF n = 2 THEN DecodeOk([t |-> t, Val |-> b[2]]) ELSE DecodeFail

(***************************************************************************)
(* uint32, the type of Conn.seq and of both header fields of a frame.  A   *)
(* value is kept as its four bytes, least significant first, which keeps   *)
(* all 32 bits: v[1] + 256 * v[2] + 65536 * v[3] + 16777216 * v[4].        *)
(***************************************************************************)
U32(n) == <<n % 256, (n \div 256) % 256, (n \div 65536) % 256,
            (n \div 16777216) % 256>>

U32Zero == <<0, 0, 0, 0>>

\* v + 1 in uint32 arithmetic: the carry runs up and falls off the top byte
U32Inc(v) ==
    IF v[1] < 255 THEN <<v[1] + 1, v[2], v[3], v[4]>>
    ELSE IF v[2] < 255 THEN <<0, v[2] + 1, v[3], v[4]>>
    ELSE IF v[3] < 255 THEN <<0, 0, v[3] + 1, v[4]>>
    ELSE IF v[4] < 255 THEN <<0, 0, 0, v[4] + 1>>
    ELSE U32Zero

\* a < b as unsigned numbers
U32Less(a, b) ==
    \E k \in 1..4 : /\ a[k] < b[k]
                    /\ \A j \in (k + 1)..4 : a[j] = b[j]

(***************************************************************************)
(* encoding/binary.LittleEndian on a byte sequence; off is the 0-based     *)
(* offset of the slice the call is given.                                  *)
(***************************************************************************)
PutUint32(b, off, v) ==
    [i \in DOMAIN b |-> IF i \in (off + 1)..(off + 4) THEN v[i - off] ELSE b[i]]

Uint32(b, off) == SubSeq(b, off + 1, off + 4)

(***************************************************************************)
(* Conn.encodeMsg: raw = make([]byte, 8); PutUint32(raw, seq);             *)
(* PutUint32(raw[:4], rseq); raw = append(raw, em...).  raw[:4] starts at  *)
(* byte 0 of raw, as raw itself does.                                      *)
(***************************************************************************)
encodeMsg(seq, rseq, m) ==
    LET em == Encode(m)
        raw0 == [i \in 1..8 |-> 0]
        raw1 == PutUint32(raw0, 0, seq)
        raw2 == PutUint32(raw1, 0, rseq)
    IN raw2 \o em

(***************************************************************************)
(* Conn.decodeRaw, and the header parse of Conn.receiving (the same steps  *)
(* written out in the loop).                                               *)
(***************************************************************************)
decodeRaw(raw) ==
    IF Len(raw) < 9
    THEN [err |-> TRUE, seq |-> U32Zero, rseq |-> U32Zero, m |-> NilMsg]
    ELSE LET d == Decode(SubSeq(raw, 9, Len(raw))) IN
         [err |-> d.err, seq |-> Uint32(raw, 0), rseq |-> Uint32(raw, 4), m |-> d.m]

receivingParse(raw) ==
    IF Len(raw) < 9
    THEN [fatal |-> "invalid messege received: samll size",
          seq |-> U32Zero, rseq |-> U32Zero, m |-> NilMsg]
    ELSE LET seq == Uint32(raw, 0)
             rseq == Uint32(raw, 4)
             d == Decode(SubSeq(raw, 9, Len(raw))) IN
         IF d.err
         THEN [fatal |-> "can't decode received messege",
               seq |-> seq, rseq |-> rseq, m |-> NilMsg]
         ELSE [fatal |-> "", seq |-> seq, rseq |-> rseq, m |-> d.m]

(***************************************************************************)
(* The wire frame as section 6 of the specification lays it out; the       *)
(* remote peer writes its frames this way.                                 *)
(***************************************************************************)
WireFrame(seq, rseq, m) ==
    PutUint32(PutUint32([i \in 1..8 |-> 0], 0, seq), 4, rseq) \o Encode(m)


(***************************************************************************)
(* State.                                                                  *)
(***************************************************************************)
VARIABLES
    config,     \* c.n.config: ResponseTimeout (0: none) and Public
    fc,         \* c.n.fc: the feeds the local node shares
    store,      \* c.n.c: the Roots the local store holds
    seq,        \* Conn.seq
    reqs,       \* Conn.reqs: sequence number -> the task whose channel rq it holds
    feeds,      \* Conn.feeds: feed -> heads (nonce -> the Root being filled)
    mx,         \* Conn.mx: "" when free, else its holder
    closed,     \* Conn.closeo has run: c.Connection.Close() was called
    sendq,      \* Conn.sendq: outbound frames the transport has not taken yet
    receiveq,   \* c.GetChanIn(): inbound frames the receive loop has not read yet
    recvPc,     \* position of the receive task (Conn.receiving)
    cur,        \* receiving's seq, rseq, m of the frame in hand
    out,        \* arguments and result of the receive task's sendMsg in progress
    handTo,     \* the task whose channel the receive task is sending m into
    fatal,      \* the text Conn.fatality was called with ("" while it was not)
    task,       \* per calling task: position and locals of sendRequest
    peerSeq,    \* the sequence number the peer gives its next frame
    handed,     \* the values nextSeq has returned, in order
    lastRoot,   \* of the handleRoot that ran for the latest frame: the return
                \* it took and the number of calls it made to the store
    cfeeds,     \* Client.feeds: the subscriptions of the client, a slice
    srvfs,      \* Client.srvfs: the feeds of the server, a slice
    csendq,     \* Client.cn.SendQueue(): messages the transport has not taken yet
    cclosed,    \* Client.cn is closed
    gotFeeds    \* what the latest Client.Feeds() returned, and whether the
                \* subscriptions are still those it was called on

vars == <<config, fc, store, seq, reqs, feeds, mx, closed, sendq, receiveq,
          recvPc, cur, out, handTo, fatal, task, peerSeq, handed, lastRoot,
          cfeeds, srvfs, csendq, cclosed, gotFeeds>>

clientVars == <<cfeeds, srvfs, csendq, cclosed, gotFeeds>>

nodeVars == <<config, fc, store>>
peerVars == <<receiveq, peerSeq>>
recvVars == <<recvPc, cur, out, handTo, fatal>>

NoRoot == [result |-> "", calls |-> 0]

NoFrame == [seq |-> U32Zero, rseq |-> U32Zero, m |-> NilMsg]
NoOut == [seq |-> U32Zero, rseq |-> U32Zero, m |-> NilMsg, raw |-> <<>>]

EmptyMap == [x \in {} |-> 0]

\* the request RemoteFeeds sends
RqListMsg == [t |-> "RqList"]

\* a counter value one allocation short of the largest uint32
NearWrap == <<254, 255, 255, 255>>

\* what the store holds: of head (1, 1) the full Root 0 and the incomplete
\* Root 2, of the other heads nothing
StoredRoots ==
    {[Pub |-> 1, Nonce |-> 1, Seq |-> 0, IsFull |-> TRUE],
     [Pub |-> 1, Nonce |-> 1, Seq |-> 2, IsFull |-> FALSE]}

\* the configurations of the node: no response timeout on a private node, a
\* response timeout on a public one
Configs ==
    {[ResponseTimeout |-> 0, Public |-> FALSE],
     [ResponseTimeout |-> 1, Public |-> TRUE]}

\* Client.Feeds has not been called on the subscriptions as they are
NoFeeds == [valid |-> FALSE, feeds |-> <<>>]

\* a task that has not called into the connection yet: the operation it is in,
\* its feed argument, the request it sends, and the locals of sendRequest
IdleTask ==
    [pc |-> "idle", op |-> "", feed |-> BlankFeed, req |-> NilMsg, seq |-> U32Zero,
     timer |-> FALSE, raw |-> <<>>, reply |-> NilMsg, err |-> ""]

Init ==
    /\ config \in Configs
    /\ fc = {1}
    /\ store = StoredRoots
    /\ seq \in {U32Zero, NearWrap}
    /\ reqs = EmptyMap
    /\ feeds = EmptyMap
    /\ mx = ""
    /\ closed = FALSE
    /\ sendq = <<>>
    /\ receiveq = <<>>
    /\ recvPc = "select"
    /\ cur = NoFrame
    /\ out = NoOut
    /\ handTo = ""
    /\ fatal = ""
    /\ task = [t \in Tasks |-> IdleTask]
    /\ peerSeq = 1
    /\ handed = <<>>
    /\ lastRoot = NoRoot
    /\ cfeeds = <<>>
    /\ srvfs = <<>>
    /\ csendq = <<>>
    /\ cclosed = FALSE
    /\ gotFeeds = NoFeeds

(***************************************************************************)
(* Conn.nextSeq: atomic.AddUint32(&c.seq, 1).                              *)
(***************************************************************************)
nextSeq(s) == U32Inc(s)

CanAlloc == Len(handed) < MaxAllocs

(***************************************************************************)
(* The calling tasks: Conn.RemoteFeeds, Conn.Subscribe and                 *)
(* Conn.Unsubscribe, and the Conn.sendRequest the first two call.          *)
(***************************************************************************)
\* the requests a task sends through sendRequest without a feed argument:
\* the list request of RemoteFeeds and a blocking object request
ObjectKeys == {1, 2}

RqObjectMsg(k) == [t |-> "RqObject", Key |-> k, Prefetch |-> FALSE]

PlainRequests == {RqListMsg, RqObjectMsg(2)}

\* lines 491-506: the timer when ResponseTimeout > 0, the channel, the number
sendRequestBegin(t, op, feed, m, newSeq) ==
    [pc |-> "addRequest", op |-> op, feed |-> feed, req |-> m, seq |-> newSeq,
     timer |-> (config.ResponseTimeout > 0), raw |-> <<>>, reply |-> NilMsg,
     err |-> ""]

\* RemoteFeeds, line 235 (and a caller that sends an object request), up to
\* the nextSeq of sendRequest
SendRequestBegin(t) ==
    /\ task[t].pc \in {"idle", "returned"}
    /\ CanAlloc
    /\ seq' = nextSeq(seq)
    /\ handed' = Append(handed, seq')
    /\ \E m \in PlainRequests :
         task' = [task EXCEPT ![t] =
                     sendRequestBegin(t, IF m = RqListMsg THEN "RemoteFeeds"
                                         ELSE "Request", BlankFeed, m, seq')]
    /\ UNCHANGED clientVars
    /\ UNCHANGED <<nodeVars, reqs, feeds, mx, closed, sendq, peerVars, recvVars,
                   lastRoot>>

\* line 508, Conn.addRequest, and the encodeMsg of line 511
AddRequest(t) ==
    /\ task[t].pc = "addRequest"
    /\ mx = ""
    /\ reqs' = [s \in DOMAIN reqs \cup {task[t].seq} |->
                   IF s = task[t].seq THEN t ELSE reqs[s]]
    /\ task' = [task EXCEPT ![t].pc = "sendRaw",
                            ![t].raw = encodeMsg(task[t].seq, U32Zero, task[t].req)]
    /\ UNCHANGED clientVars
    /\ UNCHANGED <<nodeVars, seq, feeds, mx, closed, sendq, peerVars, recvVars,
                   handed, lastRoot>>

\* line 511, Conn.sendRaw: blocks until the queue takes the frame (closeq is
\* made in newConnection and nothing closes it)
SendRequestSendRaw(t) ==
    /\ task[t].pc = "sendRaw"
    /\ Len(sendq) < SendqCap
    /\ sendq' = Append(sendq, task[t].raw)
    /\ task' = [task EXCEPT ![t].pc = "select"]
    /\ UNCHANGED clientVars
    /\ UNCHANGED <<nodeVars, seq, reqs, feeds, mx, closed, peerVars, recvVars,
                   handed, lastRoot>>

\* lines 513-525: of the three cases, "rq <- reply" is a send on a channel
\* nobody receives from and closeq is never closed; the timer is the one
\* case that can fire
SendRequestTimeout(t) ==
    /\ task[t].pc = "select"
    /\ task[t].timer
    /\ task' = [task EXCEPT ![t].pc = "delRequest", ![t].reply = NilMsg,
                            ![t].err = ErrTimeout]
    /\ UNCHANGED clientVars
    /\ UNCHANGED <<nodeVars, seq, reqs, feeds, mx, closed, sendq, peerVars,
                   recvVars, handed, lastRoot>>

\* Conn.RemoteFeeds, lines 235-255: what it returns for the reply and the
\* error sendRequest gave it
RemoteFeedsReturn(reply, err) ==
    IF err # "" THEN [feeds |-> <<>>, err |-> err]
    ELSE IF reply.t = "List" THEN [feeds |-> reply.Feeds, err |-> ""]
    ELSE IF reply.t = "Err" THEN [feeds |-> <<>>, err |-> reply.Err]
    ELSE [feeds |-> <<>>, err |-> "invalid response type"]

\* Conn.Subscribe, lines 281-307: the error it returns for the reply and the
\* error sendRequest gave it; the Feed State is created when there is none
subscribeReturn(reply, err) ==
    IF err # "" THEN err
    ELSE IF reply.t = "Ok" THEN ""
    ELSE IF reply.t = "Err" THEN reply.Err
    ELSE "invalid response type"

\* sendRequest returning without the deferred delRequest
DelRequestSkipped(t) ==
    /\ task[t].pc = "delRequest"
    /\ mx = ""
    /\ task' = [task EXCEPT ![t].pc = "returned", ![t].timer = FALSE]
    /\ UNCHANGED clientVars
    /\ UNCHANGED <<nodeVars, seq, reqs, feeds, mx, closed, sendq, peerVars,
                   recvVars, handed, lastRoot>>

\* line 509, the deferred Conn.delRequest, and the return; in Subscribe the
\* rest of it (lines 285-307) and its deferred Unlock
DelRequest(t) ==
    /\ task[t].pc = "delRequest"
    /\ mx = ""
    /\ reqs' = [s \in DOMAIN reqs \ {task[t].seq} |-> reqs[s]]
    /\ IF task[t].op = "Subscribe"
       THEN LET e == subscribeReturn(task[t].reply, task[t].err) IN
            /\ task' = [task EXCEPT ![t].pc = "returned", ![t].timer = FALSE,
                                    ![t].err = e]
            /\ feeds' = IF e # "" THEN feeds
                        ELSE [k \in DOMAIN feeds \cup {task[t].feed} |->
                                 IF k = task[t].feed THEN EmptyMap ELSE feeds[k]]
       ELSE /\ task' = [task EXCEPT ![t].pc = "returned", ![t].timer = FALSE]
            /\ feeds' = feeds
    /\ UNCHANGED clientVars
    /\ UNCHANGED <<nodeVars, seq, mx, closed, sendq, peerVars, recvVars,
                   handed, lastRoot>>

(***************************************************************************)
(* Conn.Subscribe.  It takes c.mx at line 264 and releases it when it      *)
(* returns (the deferred Unlock of line 265), so the lock is held while    *)
(* sendRequest runs.  c.n.Share (package node, not part of the sources at  *)
(* hand) makes the local node hold the feed or rejects.                    *)
(***************************************************************************)
ErrShare == "can't share the feed"

\* lines 267-277: "done" when Subscribe returns before it sends anything
\* and the feed map it leaves
subscribeBeginCreatesFirst(feedsMap, feed, shareFails) ==
    LET created == [k \in DOMAIN feedsMap \cup {feed} |->
                       IF k \in DOMAIN feedsMap THEN feedsMap[k] ELSE EmptyMap] IN
    IF feed \in DOMAIN feedsMap
    THEN [done |-> TRUE, err |-> "", share |-> FALSE, feeds |-> feedsMap]
    ELSE IF shareFails
    THEN [done |-> TRUE, err |-> ErrShare, share |-> FALSE, feeds |-> created]
    ELSE [done |-> FALSE, err |-> "", share |-> TRUE, feeds |-> created]

subscribeBegin(feedsMap, feed, shareFails) ==
    IF feed \in DOMAIN feedsMap
    THEN [done |-> TRUE, err |-> "", share |-> FALSE, feeds |-> feedsMap]
    ELSE IF shareFails
    THEN [done |-> TRUE, err |-> ErrShare, share |-> FALSE, feeds |-> feedsMap]
    ELSE [done |-> FALSE, err |-> "", share |-> TRUE, feeds |-> feedsMap]

\* lines 264-281 and, when the request is sent, sendRequest up to its nextSeq
SubscribeBegin(t) ==
    /\ task[t].pc \in {"idle", "returned"}
    /\ mx = ""
    /\ \E feed \in SubscribeKeys, shareFails \in BOOLEAN :
         LET b == subscribeBegin(feeds, feed, shareFails) IN
         /\ fc' = IF b.share THEN fc \cup {feed} ELSE fc
         /\ feeds' = b.feeds
         /\ IF b.done
            THEN /\ task' = [task EXCEPT ![t] =
                                [IdleTask EXCEPT !.pc = "returned",
                                                 !.op = "Subscribe",
                                                 !.feed = feed, !.err = b.err]]
                 /\ UNCHANGED <<seq, handed, mx>>
            ELSE /\ CanAlloc
                 /\ seq' = nextSeq(seq)
                 /\ handed' = Append(handed, seq')
                 /\ mx' = t
                 /\ task' = [task EXCEPT ![t] =
                                sendRequestBegin(t, "Subscribe", feed,
                                                 [t |-> "Sub", Feed |-> feed], seq')]
    /\ UNCHANGED clientVars
    /\ UNCHANGED <<config, store, reqs, closed, sendq, peerVars, recvVars,
                   lastRoot>>

(***************************************************************************)
(* Conn.Unsubscribe.  The delete of line 328 is given the Feed State cf,   *)
(* which stands for the entry of the feed it was looked up by.  sendMsg    *)
(* runs before the deferred Unlock.                                        *)
(***************************************************************************)
\* lines 316-328: the feed map Unsubscribe leaves and whether it goes on to send
unsubscribeKeeps(feedsMap, feed) ==
    [feeds |-> feedsMap, send |-> feed \in DOMAIN feedsMap]

unsubscribe(feedsMap, feed) ==
    IF feed \notin DOMAIN feedsMap THEN [feeds |-> feedsMap, send |-> FALSE]
    ELSE [feeds |-> [k \in DOMAIN feedsMap \ {feed} |-> feedsMap[k]],
          send |-> TRUE]

\* lines 313-330, up to the frame sendRaw is about to queue
UnsubscribeBegin(t) ==
    /\ task[t].pc \in {"idle", "returned"}
    /\ mx = ""
    /\ \E feed \in UnsubscribeKeys :
         LET u == unsubscribe(feeds, feed)
             m == [t |-> "Unsub", Feed |-> feed] IN
         /\ feeds' = u.feeds
         /\ IF ~u.send
            THEN /\ task' = [task EXCEPT ![t] =
                                [IdleTask EXCEPT !.pc = "returned",
                                                 !.op = "Unsubscribe",
                                                 !.feed = feed]]
                 /\ UNCHANGED <<seq, handed, mx>>
            ELSE /\ CanAlloc
                 /\ seq' = nextSeq(seq)
                 /\ handed' = Append(handed, seq')
                 /\ mx' = t
                 /\ task' = [task EXCEPT ![t] =
                                [IdleTask EXCEPT !.pc = "unsubSendRaw",
                                                 !.op = "Unsubscribe",
                                                 !.feed = feed, !.req = m,
                                                 !.seq = seq',
                                                 !.raw = encodeMsg(seq', U32Zero, m)]]
    /\ UNCHANGED clientVars
    /\ UNCHANGED <<nodeVars, reqs, closed, sendq, peerVars, recvVars, lastRoot>>

\* line 330, Conn.sendRaw, then the deferred Unlocks and the return
UnsubscribeSendRaw(t) ==
    /\ task[t].pc = "unsubSendRaw"
    /\ Len(sendq) < SendqCap
    /\ sendq' = Append(sendq, task[t].raw)
    /\ mx' = ""
    /\ task' = [task EXCEPT ![t].pc = "returned"]
    /\ UNCHANGED clientVars
    /\ UNCHANGED <<nodeVars, seq, reqs, feeds, closed, peerVars, recvVars,
                   handed, lastRoot>>

\* Conn.Close: closeo.Do(c.Connection.Close)
Close ==
    /\ ~closed
    /\ closed' = TRUE
    /\ UNCHANGED clientVars
    /\ UNCHANGED <<nodeVars, seq, reqs, feeds, mx, sendq, peerVars, recvVars,
                   task, handed, lastRoot>>


(***************************************************************************)
(* The store (c.n.c, package skyobject) as section 6 of the specification  *)
(* describes it: acceptRoot checks the signature and decodes the value,    *)
(* latestRoot returns the stored Root of a head with the largest sequence  *)
(* number; neither changes the store.                                      *)
(***************************************************************************)
ReceivedRoot(sig, value) ==
    IF ~sig THEN [err |-> TRUE, r |-> [Pub |-> 0, Nonce |-> 0, Seq |-> 0,
                                       IsFull |-> FALSE]]
    ELSE [err |-> FALSE,
          r |-> [Pub |-> value.Pub, Nonce |-> value.Nonce, Seq |-> value.Seq,
                 IsFull |-> \E x \in store : /\ x.Pub = value.Pub
                                             /\ x.Nonce = value.Nonce
                                             /\ x.Seq = value.Seq
                                             /\ x.IsFull]]

LastRoot(pub, nonce, dbFail) ==
    LET of == {x \in store : x.Pub = pub /\ x.Nonce = nonce} IN
    IF dbFail THEN [err |-> "failure", found |-> FALSE, Seq |-> 0]
    ELSE IF of = {} THEN [err |-> "ErrNotFound", found |-> FALSE, Seq |-> 0]
    ELSE [err |-> "", found |-> TRUE,
          Seq |-> (CHOOSE x \in of : \A y \in of : y.Seq <= x.Seq).Seq]

(***************************************************************************)
(* Conn.addToFiller as section 4.5 of the specification describes it: one  *)
(* Filling Operation per head; a newer Root supersedes its target, an      *)
(* older or equal one is ignored.                                          *)
(***************************************************************************)
HeadsOf(feedsMap, f) == IF f \in DOMAIN feedsMap THEN feedsMap[f] ELSE EmptyMap

addToFiller(feedsMap, f, r) ==
    LET heads == HeadsOf(feedsMap, f)
        entry == [Pub |-> r.Pub, Seq |-> r.Seq]
        heads2 == IF r.Nonce \in DOMAIN heads /\ heads[r.Nonce].Seq >= r.Seq
                  THEN heads
                  ELSE [n \in DOMAIN heads \cup {r.Nonce} |->
                           IF n = r.Nonce THEN entry ELSE heads[n]]
    IN [k \in DOMAIN feedsMap \cup {f} |-> IF k = f THEN heads2 ELSE feedsMap[k]]

(***************************************************************************)
(* Conn.handleRoot.                                                        *)
(***************************************************************************)
\* lines 707-711: do we share the feed
sharesFeedAlways(feedsMap, f) == TRUE

sharesFeed(feedsMap, f) == f \in DOMAIN feedsMap

\* line 744: the received Root is older than the one we have
rootIsOlderStrict(rSeq, last) == last.found /\ rSeq < last.Seq

rootIsOlder(rSeq, last) == last.found /\ rSeq <= last.Seq

\* the feed map, the number of store calls and the return taken
handleRoot(feedsMap, root, dbFail) ==
    IF ~sharesFeed(feedsMap, root.Feed)
    THEN [feeds |-> feedsMap, calls |-> 0, result |-> "not subscribed"]
    ELSE
    LET rr == ReceivedRoot(root.Sig, root.Value) IN
    IF rr.err
    THEN [feeds |-> feedsMap, calls |-> 1, result |-> "received Root error"]
    ELSE IF rr.r.IsFull
    THEN [feeds |-> feedsMap, calls |-> 1, result |-> "full"]
    ELSE
    LET last == LastRoot(rr.r.Pub, rr.r.Nonce, dbFail) IN
    IF last.err \notin {"", "ErrNotFound"}
    THEN [feeds |-> feedsMap, calls |-> 2, result |-> "can't get last root"]
    ELSE IF rootIsOlder(rr.r.Seq, last)
    THEN [feeds |-> feedsMap, calls |-> 2, result |-> "older"]
    ELSE [feeds |-> addToFiller(feedsMap, root.Feed, rr.r), calls |-> 2,
          result |-> "fill"]

(***************************************************************************)
(* Conn.handleSub: the reply it sends, the feed map it leaves, and whether *)
(* c.mx is held while the reply is sent (the blank-key return comes before *)
(* the Lock).                                                              *)
(***************************************************************************)
ErrMsg(text) == [t |-> "Err", Err |-> text]

OkMsg == [t |-> "Ok"]

handleSubNoShareCheck(feedsMap, sub, reject) ==
    IF sub.Feed = BlankFeed
    THEN [feeds |-> feedsMap, reply |-> ErrMsg("blank public key"), locked |-> FALSE]
    ELSE IF sub.Feed \in DOMAIN feedsMap
    THEN [feeds |-> feedsMap, reply |-> OkMsg, locked |-> TRUE]
    ELSE IF reject
    THEN [feeds |-> feedsMap, reply |-> ErrMsg("rejected"), locked |-> TRUE]
    ELSE [feeds |-> [k \in DOMAIN feedsMap \cup {sub.Feed} |->
                        IF k = sub.Feed THEN EmptyMap ELSE feedsMap[k]],
          reply |-> OkMsg, locked |-> TRUE]

handleSub(feedsMap, sub, reject) ==
    IF sub.Feed = BlankFeed
    THEN [feeds |-> feedsMap, reply |-> ErrMsg("blank public key"), locked |-> FALSE]
    ELSE IF sub.Feed \in DOMAIN feedsMap
    THEN [feeds |-> feedsMap, reply |-> OkMsg, locked |-> TRUE]
    ELSE IF reject
    THEN [feeds |-> feedsMap, reply |-> ErrMsg("rejected"), locked |-> TRUE]
    ELSE IF sub.Feed \notin fc
    THEN [feeds |-> feedsMap, reply |-> ErrMsg("not share the feed"), locked |-> TRUE]
    ELSE [feeds |-> [k \in DOMAIN feedsMap \cup {sub.Feed} |->
                        IF k = sub.Feed THEN EmptyMap ELSE feedsMap[k]],
          reply |-> OkMsg, locked |-> TRUE]

(***************************************************************************)
(* Conn.handleRqList: the reply; c.n.Feeds() lists the feeds of the node.  *)
(***************************************************************************)
RECURSIVE SetToSeq(_)
SetToSeq(S) ==
    IF S = {} THEN <<>>
    ELSE LET x == CHOOSE y \in S : \A z \in S : y <= z IN <<x>> \o SetToSeq(S \ {x})

handleRqList ==
    IF config.Public = FALSE THEN ErrMsg(ErrNotPublic)
    ELSE [t |-> "List", Feeds |-> SetToSeq(fc)]

(***************************************************************************)
(* Conn.handleRqObject: c.n.c.Get (package skyobject, not part of the      *)
(* sources at hand) finds the object, does not find it, or fails; the      *)
(* handler sends nothing in any case, and on a failure calls c.n.Fatal.    *)
(***************************************************************************)
\* the keys of the objects the local store holds
StoredObjects == {1}

Get(key, dbFail) ==
    IF dbFail THEN "failure"
    ELSE IF key \in StoredObjects THEN "" ELSE "ErrNotFound"

\* the reply the handler sends (NilMsg: none) and whether it called Fatal
handleRqObjectReportsMissing(rq, dbFail) ==
    LET err == Get(rq.Key, dbFail) IN
    IF err = "failure" THEN [reply |-> NilMsg, fatal |-> TRUE]
    ELSE IF err = "ErrNotFound" THEN [reply |-> ErrMsg("not found"), fatal |-> FALSE]
    ELSE [reply |-> NilMsg, fatal |-> FALSE]

handleRqObject(rq, dbFail) ==
    LET err == Get(rq.Key, dbFail) IN
    IF err = "failure" THEN [reply |-> NilMsg, fatal |-> TRUE]
    ELSE [reply |-> NilMsg, fatal |-> FALSE]


(***************************************************************************)
(* The receive task: Conn.receiving.                                       *)
(***************************************************************************)
\* lines 421-445: take a frame, parse it; a short or undecodable frame ends
\* the loop through fatality, whose closeWithError does nothing
RecvFrame ==
    /\ recvPc = "select"
    /\ receiveq # <<>>
    /\ LET p == receivingParse(Head(receiveq)) IN
       /\ receiveq' = Tail(receiveq)
       /\ IF p.fatal # ""
          THEN /\ fatal' = p.fatal
               /\ recvPc' = "done"
               /\ cur' = NoFrame
          ELSE /\ fatal' = fatal
               /\ recvPc' = "isResponse"
               /\ cur' = [seq |-> p.seq, rseq |-> p.rseq, m |-> p.m]
    /\ lastRoot' = NoRoot
    /\ UNCHANGED clientVars
    /\ UNCHANGED <<nodeVars, seq, reqs, feeds, mx, closed, sendq, out, handTo,
                   task, peerSeq, handed>>

\* lines 421-425: the inbound channel is closed and drained
RecvChanClosed ==
    /\ recvPc = "select"
    /\ closed
    /\ receiveq = <<>>
    /\ recvPc' = "done"
    /\ UNCHANGED clientVars
    /\ UNCHANGED <<nodeVars, seq, reqs, feeds, mx, closed, sendq, receiveq, cur,
                   out, handTo, fatal, task, peerSeq, handed, lastRoot>>

\* line 448, Conn.isResponse: with a slot for rseq the task goes on to
\* "rq <- m" (line 449), without one to handle (line 453)
RecvIsResponse ==
    /\ recvPc = "isResponse"
    /\ mx = ""
    /\ IF cur.rseq \in DOMAIN reqs
       THEN /\ recvPc' = "hand"
            /\ handTo' = reqs[cur.rseq]
       ELSE /\ recvPc' = "handle"
            /\ handTo' = handTo
    /\ UNCHANGED clientVars
    /\ UNCHANGED <<nodeVars, seq, reqs, feeds, mx, closed, sendq, receiveq, cur,
                   out, fatal, task, peerSeq, handed, lastRoot>>

\* Conn.sendErr, Conn.sendOk, line 692: sendMsg(c.nextSeq(), rseq, m), up to
\* the frame sendRaw is about to queue
SendReply(rseq, m) ==
    /\ CanAlloc
    /\ seq' = nextSeq(seq)
    /\ handed' = Append(handed, seq')
    /\ out' = [seq |-> seq', rseq |-> rseq, m |-> m,
               raw |-> encodeMsg(seq', rseq, m)]
    /\ recvPc' = "sending"

\* Conn.handle, case *msg.Sub
HandleSub ==
    /\ recvPc = "handle"
    /\ cur.m.t = "Sub"
    /\ \E reject \in BOOLEAN :
         LET h == handleSub(feeds, cur.m, reject) IN
         /\ h.locked => mx = ""
         /\ mx' = IF h.locked THEN "recv" ELSE mx
         /\ feeds' = h.feeds
         /\ SendReply(cur.seq, h.reply)
    /\ UNCHANGED clientVars
    /\ UNCHANGED <<nodeVars, reqs, closed, sendq, receiveq, cur, handTo, fatal,
                   task, peerSeq, lastRoot>>

\* Conn.handle, case *msg.Unsub: Conn.handleUnsub looks the feed up and returns
HandleUnsub ==
    /\ recvPc = "handle"
    /\ cur.m.t = "Unsub"
    /\ cur.m.Feed # BlankFeed => mx = ""
    /\ recvPc' = "select"
    /\ cur' = NoFrame
    /\ UNCHANGED clientVars
    /\ UNCHANGED <<nodeVars, seq, reqs, feeds, mx, closed, sendq, receiveq, out,
                   handTo, fatal, task, peerSeq, handed, lastRoot>>

\* Conn.handle, case *msg.RqList
HandleRqList ==
    /\ recvPc = "handle"
    /\ cur.m.t = "RqList"
    /\ SendReply(cur.seq, handleRqList)
    /\ UNCHANGED clientVars
    /\ UNCHANGED <<nodeVars, reqs, feeds, mx, closed, sendq, receiveq, cur, handTo,
                   fatal, task, peerSeq, lastRoot>>

\* Conn.handle, case *msg.Root
HandleRoot ==
    /\ recvPc = "handle"
    /\ cur.m.t = "Root"
    /\ mx = ""
    /\ \E dbFail \in BOOLEAN :
         LET h == handleRoot(feeds, cur.m, dbFail) IN
         /\ feeds' = h.feeds
         /\ lastRoot' = [result |-> h.result, calls |-> h.calls]
    /\ recvPc' = "select"
    /\ cur' = NoFrame
    /\ UNCHANGED clientVars
    /\ UNCHANGED <<nodeVars, seq, reqs, mx, closed, sendq, receiveq, out, handTo,
                   fatal, task, peerSeq, handed>>

\* Conn.handle, case *msg.RqObject
HandleRqObject ==
    /\ recvPc = "handle"
    /\ cur.m.t = "RqObject"
    /\ \E dbFail \in BOOLEAN :
         LET h == handleRqObject(cur.m, dbFail) IN
         IF h.fatal
         THEN /\ fatal' = "CXDS DB failure"
              /\ recvPc' = "done"
              /\ UNCHANGED <<seq, handed, out, cur>>
         ELSE IF h.reply = NilMsg
         THEN /\ recvPc' = "select"
              /\ cur' = NoFrame
              /\ UNCHANGED <<seq, handed, out, fatal>>
         ELSE /\ SendReply(cur.seq, h.reply)
              /\ UNCHANGED <<cur, fatal>>
    /\ UNCHANGED clientVars
    /\ UNCHANGED <<nodeVars, reqs, feeds, mx, closed, sendq, receiveq, handTo,
                   task, peerSeq, lastRoot>>

\* Conn.handle, the cases whose handlers return at once: RootDone, RootErr,
\* Object, RqPreview
HandleOther ==
    /\ recvPc = "handle"
    /\ cur.m.t \in {"RootDone", "RootErr", "Object", "RqPreview"}
    /\ recvPc' = "select"
    /\ cur' = NoFrame
    /\ UNCHANGED clientVars
    /\ UNCHANGED <<nodeVars, seq, reqs, feeds, mx, closed, sendq, receiveq, out,
                   handTo, fatal, task, peerSeq, handed, lastRoot>>

\* Conn.handle, default: "invalid messege type"; receiving calls fatality
\* and returns (lines 453-456)
HandleInvalid ==
    /\ recvPc = "handle"
    /\ cur.m.t \in {"Ok", "Err", "List"}
    /\ fatal' = "error handling messege"
    /\ recvPc' = "done"
    /\ UNCHANGED clientVars
    /\ UNCHANGED <<nodeVars, seq, reqs, feeds, mx, closed, sendq, receiveq, cur,
                   out, handTo, task, peerSeq, handed, lastRoot>>

\* Conn.sendRaw of the reply, then the handler's deferred Unlock and the
\* next turn of the loop
RecvSendRaw ==
    /\ recvPc = "sending"
    /\ Len(sendq) < SendqCap
    /\ sendq' = Append(sendq, out.raw)
    /\ mx' = IF mx = "recv" THEN "" ELSE mx
    /\ recvPc' = "select"
    /\ cur' = NoFrame
    /\ out' = NoOut
    /\ UNCHANGED clientVars
    /\ UNCHANGED <<nodeVars, seq, reqs, feeds, closed, receiveq, handTo, fatal,
                   task, peerSeq, handed, lastRoot>>

(***************************************************************************)
(* The remote peer and the transport.                                      *)
(***************************************************************************)
\* a response sequence number no request of this connection was given
BogusRseq == U32(MaxAllocs + 4)

RseqChoices == {BogusRseq} \cup {task[t].seq : t \in {u \in Tasks : task[u].pc # "idle"}}

RootMsg(f, p, s, sig) ==
    [t |-> "Root", Feed |-> f, Nonce |-> 1, Seq |-> s, Sig |-> sig,
     Value |-> [Pub |-> p, Nonce |-> 1, Seq |-> s]]

ResponseMsgs == {OkMsg, ErrMsg(ErrNotPublic), [t |-> "List", Feeds |-> <<1>>]}

\* Roots of feed 1 and head (1, 1): the full one, an older one, the stored
\* one and a newer one; a Root of feed 1 whose value names a head the store
\* has nothing of; a Root with a bad signature; a Root of feed 2, which the
\* node does not share and so never grants
RootMsgs ==
    {RootMsg(1, 1, s, TRUE) : s \in RootSeqs}
    \cup {RootMsg(1, 2, 2, TRUE), RootMsg(1, 1, 3, FALSE), RootMsg(2, 2, 2, TRUE)}

RequestMsgs ==
    {[t |-> "Sub", Feed |-> k] : k \in AllKeys}
    \cup {[t |-> "Unsub", Feed |-> 1]}
    \cup {RqListMsg}
    \cup RootMsgs
    \cup {RqObjectMsg(k) : k \in ObjectKeys}
    \cup {[t |-> "RootDone", Feed |-> 1, Nonce |-> 1, Seq |-> 1]}

\* a frame of five bytes, and a frame whose tag byte names no message
ShortFrame == <<1, 0, 0, 0, 0>>
BadTagFrame == <<1, 0, 0, 0, 0, 0, 0, 0, 99>>

PeerFrames ==
    {WireFrame(U32(peerSeq), r, m) : r \in RseqChoices, m \in ResponseMsgs}
    \cup {WireFrame(U32(peerSeq), U32Zero, m) : m \in RequestMsgs}
    \cup {ShortFrame, BadTagFrame}

PeerSend ==
    /\ ~closed
    /\ peerSeq <= MaxInbound
    /\ Len(receiveq) < ReceiveqCap
    /\ \E raw \in PeerFrames : receiveq' = Append(receiveq, raw)
    /\ peerSeq' = peerSeq + 1
    /\ UNCHANGED clientVars
    /\ UNCHANGED <<nodeVars, seq, reqs, feeds, mx, closed, sendq, recvVars, task,
                   handed, lastRoot>>

\* the transport takes the next outbound frame
PeerTake ==
    /\ sendq # <<>>
    /\ sendq' = Tail(sendq)
    /\ UNCHANGED clientVars
    /\ UNCHANGED <<nodeVars, seq, reqs, feeds, mx, closed, peerVars, recvVars,
                   task, handed, lastRoot>>

(***************************************************************************)
(* The client (src/unnamed/part_000): its subscriptions c.feeds and the    *)
(* server's feeds c.srvfs, both slices, and the send queue of its          *)
(* connection.                                                             *)
(***************************************************************************)
\* capacity of cn.SendQueue()
ClientSendqCap == 2

connVars == <<config, fc, store, seq, reqs, feeds, mx, closed, sendq, receiveq,
              recvPc, cur, out, handTo, fatal, task, peerSeq, handed, lastRoot>>

\* Go's make([]T, len, cap) and copy(dst, src): copy writes
\* min(len(dst), len(src)) elements over the front of dst
make(len, cap) == [i \in 1..len |-> BlankFeed]

copy(dst, src) ==
    [i \in 1..Len(dst) |-> IF i <= Len(src) THEN src[i] ELSE dst[i]]

hasFeed(list, feed) == \E i \in 1..Len(list) : list[i] = feed

\* append(list[:i], list[i+1:]...) for the first i with list[i] = feed
removeFeed(list, feed) ==
    IF ~hasFeed(list, feed) THEN list
    ELSE LET i == CHOOSE k \in 1..Len(list) :
                     list[k] = feed /\ \A j \in 1..(k - 1) : list[j] # feed
         IN SubSeq(list, 1, i - 1) \o SubSeq(list, i + 1, Len(list))

\* Client.Feeds
clientFeeds(list) ==
    IF Len(list) = 0 THEN <<>>
    ELSE copy(make(0, Len(list)), list)

\* Client.sendMessage: the select with its default case; with the connection
\* closed and room in the queue either ready case is taken
ClientSendMessage(m, ok) ==
    \/ /\ Len(csendq) < ClientSendqCap
       /\ csendq' = Append(csendq, m)
       /\ cclosed' = cclosed
       /\ ok
    \/ /\ cclosed
       /\ UNCHANGED <<csendq, cclosed>>
       /\ ~ok
    \/ /\ ~cclosed
       /\ Len(csendq) >= ClientSendqCap
       /\ csendq' = csendq
       /\ cclosed' = TRUE
       /\ ~ok

\* Client.handleMessage, case *AddFeedMsg: Client.addServerFeed
ClientAddServerFeed ==
    /\ \E feed \in Feeds :
         srvfs' = IF hasFeed(srvfs, feed) THEN srvfs ELSE Append(srvfs, feed)
    /\ UNCHANGED <<cfeeds, csendq, cclosed, gotFeeds>>
    /\ UNCHANGED connVars

\* Client.handleMessage, case *DelFeedMsg: Client.delServerFeed
ClientDelServerFeed ==
    /\ \E feed \in Feeds : srvfs' = removeFeed(srvfs, feed)
    /\ UNCHANGED <<cfeeds, csendq, cclosed, gotFeeds>>
    /\ UNCHANGED connVars

\* Client.Subscribe
ClientSubscribe ==
    /\ \E feed \in Feeds, ok \in BOOLEAN :
         IF ~hasFeed(srvfs, feed) \/ hasFeed(cfeeds, feed)
         THEN ~ok /\ UNCHANGED <<cfeeds, csendq, cclosed, gotFeeds>>
         ELSE /\ cfeeds' = Append(cfeeds, feed)
              /\ ClientSendMessage([t |-> "AddFeed", Feed |-> feed], ok)
              /\ gotFeeds' = NoFeeds
    /\ UNCHANGED srvfs
    /\ UNCHANGED connVars

\* Client.Unsubscribe
ClientUnsubscribe ==
    /\ \E feed \in Feeds, ok \in BOOLEAN :
         IF ~hasFeed(cfeeds, feed)
         THEN ~ok /\ UNCHANGED <<cfeeds, csendq, cclosed, gotFeeds>>
         ELSE /\ cfeeds' = removeFeed(cfeeds, feed)
              /\ ClientSendMessage([t |-> "DelFeed", Feed |-> feed], ok)
              /\ gotFeeds' = NoFeeds
    /\ UNCHANGED srvfs
    /\ UNCHANGED connVars

\* a call of Client.Feeds
ClientFeeds ==
    /\ gotFeeds' = [valid |-> TRUE, feeds |-> clientFeeds(cfeeds)]
    /\ UNCHANGED <<cfeeds, srvfs, csendq, cclosed>>
    /\ UNCHANGED connVars

\* the transport takes the next message of the client
ClientTransportTake ==
    /\ csendq # <<>>
    /\ csendq' = Tail(csendq)
    /\ UNCHANGED <<cfeeds, srvfs, cclosed, gotFeeds>>
    /\ UNCHANGED connVars

ClientNext ==
    \/ ClientAddServerFeed
    \/ ClientDelServerFeed
    \/ ClientSubscribe
    \/ ClientUnsubscribe
    \/ ClientFeeds
    \/ ClientTransportTake

ClientSpec == Init /\ [][ClientNext]_vars

(***************************************************************************)
(* The specification.                                                      *)
(***************************************************************************)
TaskStep(t) ==
    \/ AddRequest(t)
    \/ SendRequestSendRaw(t)
    \/ SendRequestTimeout(t)
    \/ DelRequest(t)
    \/ UnsubscribeSendRaw(t)

RecvStep ==
    \/ RecvFrame
    \/ RecvChanClosed
    \/ RecvIsResponse
    \/ HandleSub
    \/ HandleUnsub
    \/ HandleRqList
    \/ HandleRoot
    \/ HandleRqObject
    \/ HandleOther
    \/ HandleInvalid
    \/ RecvSendRaw

Next ==
    \/ \E t \in Tasks : SendRequestBegin(t)
    \/ \E t \in Tasks : SubscribeBegin(t)
    \/ \E t \in Tasks : UnsubscribeBegin(t)
    \/ \E t \in Tasks : TaskStep(t)
    \/ Close
    \/ RecvStep
    \/ PeerSend
    \/ PeerTake

Spec == Init /\ [][Next]_vars

\* every task that can run does run, timers that are armed fire, and the
\* transport keeps taking outbound frames
Fairness ==
    /\ \A t \in Tasks : WF_vars(TaskStep(t))
    /\ WF_vars(RecvStep)
    /\ WF_vars(PeerTake)

FairSpec == Spec /\ Fairness


(***************************************************************************)
(* Properties.                                                             *)
(***************************************************************************)
\* task t is inside sendRequest with its request registered or about to be
Pending(t) == task[t].pc \in {"addRequest", "sendRaw", "select", "delRequest"}

\* the receive task holds a response to the request task t is waiting on
ResponseInHand(t) ==
    /\ recvPc = "hand"
    /\ handTo = t
    /\ cur.rseq = task[t].seq
    /\ task[t].pc = "select"

\* C1 (response delivery): while the receive task holds a decodable frame
\* whose response-sequence is the number of the request task t awaits, the
\* connection is open and t's timer has not fired, the step by which t
\* leaves the select of sendRequest returns that frame's message with a nil
\* error.
C1_ResponseDelivered ==
    [][\A t \in Tasks :
          (ResponseInHand(t) /\ ~closed /\ task'[t].pc # "select")
              => (task'[t].reply = cur.m /\ task'[t].err = "")]_vars

\* C2 (at-most-one response delivery): a sendRequest that has returned has
\* exactly one of the outcomes {a reply, ErrTimeout, ErrClosed}, and a call
\* does not stay pending once its response has arrived or the connection has
\* been closed.
OutcomeCount(t) ==
    Cardinality({o \in {"reply", ErrTimeout, ErrClosed} :
                    \/ o = "reply" /\ task[t].reply # NilMsg
                    \/ o # "reply" /\ task[t].err = o})

\* task t has returned from an operation that went through sendRequest
SendRequestReturned(t) ==
    task[t].pc = "returned" /\ task[t].req.t \in {"RqList", "RqObject", "Sub"}

C2_ResolvesOnce ==
    /\ [](\A t \in Tasks : SendRequestReturned(t) => OutcomeCount(t) = 1)
    /\ \A t \in Tasks : ResponseInHand(t) ~> (task[t].pc = "returned")
    /\ \A t \in Tasks : (closed /\ Pending(t)) ~> (task[t].pc = "returned")

\* C3 (close cancels pending requests): a task blocked in the select of
\* sendRequest with no response timeout configured, on a connection that
\* Close was called on, eventually returns ErrClosed.
C3_CloseUnblocks ==
    \A t \in Tasks :
        (closed /\ task[t].pc = "select" /\ ~task[t].timer)
            ~> (task[t].pc = "returned" /\ task[t].err = ErrClosed)

\* C4 (frame codec round-trip): decoding the frame encodeMsg(seq, rseq, m)
\* built yields (seq, rseq, m), for the requests of sendRequest and for the
\* replies of the handlers.
C4_CodecRoundTrip ==
    /\ \A t \in Tasks :
          task[t].pc = "sendRaw"
              => decodeRaw(task[t].raw) = [err |-> FALSE, seq |-> task[t].seq,
                                           rseq |-> U32Zero, m |-> task[t].req]
    /\ recvPc = "sending"
          => decodeRaw(out.raw) = [err |-> FALSE, seq |-> out.seq,
                                   rseq |-> out.rseq, m |-> out.m]

\* C5 (response correlation of replies): the reply frame a handler is sending
\* for an inbound Subscribe or list request decodes, at the requesting peer,
\* to a response-sequence equal to the sequence number of the request frame
\* and a sequence number that is the latest nextSeq handed out, carrying Ok,
\* Error or List.
C5_ReplyCorrelated ==
    (recvPc = "sending" /\ cur.m.t \in {"Sub", "RqList"})
        => LET d == decodeRaw(out.raw) IN
           /\ ~d.err
           /\ d.rseq = cur.seq
           /\ d.seq = handed[Len(handed)]
           /\ d.m.t \in {"Ok", "Err", "List"}

\* C6 (sequence monotonicity): while the connection is open, the numbers
\* nextSeq handed out are strictly increasing in allocation order (and so
\* pairwise distinct), the largest uint32 included.
C6_SeqIncreasing ==
    ~closed => \A i, j \in 1..Len(handed) : i < j => U32Less(handed[i], handed[j])

\* C7 (malformed frame is fatal): once a short or undecodable frame has
\* arrived, the receive loop has stopped and the connection is closed.
C7_MalformedCloses ==
    fatal \in {"invalid messege received: samll size", "can't decode received messege"}
        => (recvPc = "done" /\ closed)

\* C8 (unmatched response is dropped): a frame with a non-zero
\* response-sequence that matches no pending request raises no error and does
\* not stop the receive loop.
C8_UnmatchedDropped ==
    ~(/\ cur.rseq # U32Zero
      /\ cur.rseq \notin DOMAIN reqs
      /\ fatal = "error handling messege"
      /\ recvPc = "done")

\* the store's latest Root of the head the announced Root belongs to is at
\* least as new as the announced one
StaleRoot(root) ==
    \E x \in store : /\ x.Pub = root.Value.Pub
                     /\ x.Nonce = root.Value.Nonce
                     /\ root.Value.Seq <= x.Seq

\* the receive task's step that runs handleRoot for the frame in hand
HandleRootStep == recvPc = "handle" /\ cur.m.t = "Root" /\ recvPc' # "handle"

\* C9 (stale-root rejection): handling an announced Root whose sequence is not
\* above that of the store's latest Root of its head registers nothing for
\* filling and changes nothing of the connection, its feeds or the store.
C9_StaleRootRejected ==
    [][(HandleRootStep /\ StaleRoot(cur.m))
          => /\ lastRoot'.result # "fill"
             /\ UNCHANGED <<feeds, store, fc, seq, reqs, sendq, mx, closed, fatal>>]_vars

C9_Witness ==
    /\ lastRoot.result = "older"
    /\ DOMAIN feeds # {}
    /\ recvPc = "select"

\* C10 (Root of an unsubscribed feed): handling a Root whose feed is not in
\* the feed map makes no call to the store, registers nothing, sends nothing
\* and leaves the receive loop running on an open connection.
C10_UnsubscribedRootIgnored ==
    [][(HandleRootStep /\ cur.m.Feed \notin DOMAIN feeds)
          => /\ lastRoot'.calls = 0
             /\ recvPc' = "select"
             /\ UNCHANGED <<feeds, store, seq, sendq, out, fatal, closed>>]_vars

C10_Witness ==
    /\ lastRoot.result = "not subscribed"
    /\ DOMAIN feeds # {}
    /\ recvPc = "select"

\* task t is in Subscribe, inside its sendRequest, and a frame carrying Ok
\* with the number of its request as response-sequence has arrived
SubscribeAnswered(t) ==
    /\ task[t].op = "Subscribe"
    /\ Pending(t)
    /\ \/ cur.m = OkMsg /\ cur.rseq = task[t].seq
       \/ \E i \in 1..Len(receiveq) :
             LET d == decodeRaw(receiveq[i]) IN
             ~d.err /\ d.m = OkMsg /\ d.rseq = task[t].seq

\* the step by which task t calls Subscribe
SubscribeCall(t) ==
    /\ task[t].pc \in {"idle", "returned"}
    /\ task'[t].op = "Subscribe"
    /\ task'[t] # task[t]

\* C11 (idempotent subscribe): a Subscribe the peer has answered with Ok
\* returns with a nil error and the feed in the feed map, and a Subscribe for
\* a feed that is in the feed map returns a nil error at once, sends no frame
\* and leaves the feed map as it is.
C11_IdempotentSubscribe ==
    /\ \A t \in Tasks :
          SubscribeAnswered(t)
              ~> (/\ task[t].pc = "returned"
                  /\ task[t].err = ""
                  /\ task[t].feed \in DOMAIN feeds)
    /\ [][\A t \in Tasks :
             (SubscribeCall(t) /\ task'[t].feed \in DOMAIN feeds)
                 => /\ task'[t].pc = "returned"
                    /\ task'[t].err = ""
                    /\ UNCHANGED <<feeds, seq, sendq>>]_vars

\* C12 (blank feed on outgoing subscribe): a Subscribe called with the zero
\* key has returned an error, without a request or a sequence number, and the
\* zero key is neither among the feeds of the node nor in the feed map.
C12_BlankSubscribeRejected ==
    \A t \in Tasks :
        (task[t].op = "Subscribe" /\ task[t].feed = BlankFeed)
            => /\ task[t].pc = "returned"
               /\ task[t].err # ""
               /\ task[t].req = NilMsg
               /\ BlankFeed \notin fc
               /\ BlankFeed \notin DOMAIN feeds

\* C13 (failed subscribe creates no state): a step of Subscribe that returns
\* an error leaves the feed map as it was, without the feed, and a step of
\* Subscribe changes the feed map only when the reply in its hand is Ok.
C13_FailedSubscribeNoState ==
    [][\A t \in Tasks :
          (task'[t] # task[t] /\ task'[t].op = "Subscribe")
              => /\ (task'[t].pc = "returned" /\ task'[t].err # "")
                        => (feeds' = feeds /\ task'[t].feed \notin DOMAIN feeds')
                 /\ feeds' # feeds => task[t].reply = OkMsg]_vars

C13_Witness ==
    \E t \in Tasks :
        /\ task[t].op = "Subscribe"
        /\ task[t].pc = "returned"
        /\ task[t].err = ErrShare
        /\ task[t].feed \notin DOMAIN feeds
        /\ DOMAIN feeds # {}

\* the receive task's step that runs handleSub for the frame in hand
HandleSubStep == recvPc = "handle" /\ cur.m.t = "Sub" /\ recvPc' # "handle"

C15_InboundUnsubscribeRemoves ==
    [][(recvPc = "handle" /\ cur.m.t = "Unsub" /\ recvPc' # "handle"
        /\ cur.m.Feed \in DOMAIN feeds)
          => /\ cur.m.Feed \notin DOMAIN feeds'
             /\ UNCHANGED <<sendq, seq>>]_vars

\* the step by which task t calls Unsubscribe
UnsubscribeCall(t) ==
    /\ task[t].pc \in {"idle", "returned"}
    /\ task'[t].op = "Unsubscribe"
    /\ task'[t] # task[t]

C17_ListRequestGate ==
    /\ (recvPc = "sending" /\ cur.m.t = "RqList")
          => /\ out.m = IF config.Public THEN [t |-> "List", Feeds |-> SetToSeq(fc)]
                        ELSE ErrMsg(ErrNotPublic)
             /\ out.rseq = cur.seq
             /\ fatal = ""
    /\ \A t \in Tasks :
          (/\ task[t].op = "RemoteFeeds"
           /\ task[t].pc = "returned"
           /\ recvPc = "hand"
           /\ handTo = t
           /\ cur.rseq = task[t].seq
           /\ cur.m.t \in {"List", "Err"})
              => RemoteFeedsReturn(task[t].reply, task[t].err)
                     = RemoteFeedsReturn(cur.m, "")

\* the receive task's step that runs handleRqObject for a key the store does
\* not hold
RqObjectNotFoundStep ==
    /\ recvPc = "handle"
    /\ cur.m.t = "RqObject"
    /\ cur.m.Key \notin StoredObjects
    /\ recvPc' # "handle"
    /\ fatal' = fatal

C20_LockScope ==
    /\ ~(mx = "recv" /\ recvPc = "sending")
    /\ \A t \in Tasks :
          mx = t => task[t].pc \notin {"addRequest", "sendRaw", "select",
                                       "delRequest", "unsubSendRaw"}

\* the elements of a slice
Elements(list) == {list[i] : i \in 1..Len(list)}

\* C19 (Client.Feeds): while the subscriptions are those Client.Feeds was
\* called on, and no send of the client has failed, what it returned holds
\* exactly the subscribed feeds, each once.
C19_ClientFeedsReturnsSubscriptions ==
    (gotFeeds.valid /\ ~cclosed)
        => /\ Elements(gotFeeds.feeds) = Elements(cfeeds)
           /\ Len(gotFeeds.feeds) = Len(cfeeds)

\* C21 (the receive loop is never blocked by a local caller): a receive task
\* that has found the pending slot of the response frame in its hand finishes
\* with that frame, whether the requester is still waiting, has timed out or
\* the connection was closed, and goes on with its loop.
C21_ReceiveLoopNotBlocked ==
    (recvPc = "hand") ~> (recvPc = "select")

\* the tasks whose sendRequest has registered its request and not returned
Registered == {t \in Tasks : task[t].pc \in {"sendRaw", "select", "delRequest"}}

\* C22 (pending-request table): the pending-request map holds exactly the
\* numbers of the sendRequest calls that have registered and not returned,
\* each with the channel of its call, and a frame whose response-sequence is
\* the number of a call that has returned finds no slot.
C22_PendingTable ==
    /\ [](/\ DOMAIN reqs = {task[t].seq : t \in Registered}
          /\ \A t \in Registered : reqs[task[t].seq] = t)
    /\ [][\A t \in Tasks :
             (/\ recvPc = "isResponse"
              /\ recvPc' # "isResponse"
              /\ SendRequestReturned(t)
              /\ cur.rseq = task[t].seq)
                 => recvPc' = "handle"]_vars

C22_Witness ==
    \E t \in Tasks :
        /\ SendRequestReturned(t)
        /\ task[t].err = ErrTimeout
        /\ recvPc = "handle"
        /\ cur.rseq = task[t].seq
        /\ reqs = EmptyMap

====
